---- MODULE Spec2Model ----
(***************************************************************************)
(* Model of the MindForge AI backend document pipeline:                    *)
(*   - chunkText and findRelevantChunks (utils/textChunker.js, kept here   *)
(*     as src/unnamed/part_000),                                           *)
(*   - uploadDocument / processPDF / getDocument / deleteDocument          *)
(*     (controllers/documentController.js).                                *)
(* A JavaScript string is a sequence of one-character strings.             *)
(***************************************************************************)
EXTENDS Integers, Sequences, FiniteSets, TLC

VARIABLES
    text, chunkSize, overlap, pcChunk, chunked,      \* one chunkText call
    chunks, query, maxChunks, pcRank, ranked,        \* one findRelevantChunks call
    document, upload, job, del, get                 \* the pipeline of one document

vars == <<text, chunkSize, overlap, pcChunk, chunked,
          chunks, query, maxChunks, pcRank, ranked,
          document, upload, job, del, get>>

chunkVars == <<text, chunkSize, overlap, pcChunk, chunked>>
rankVars  == <<chunks, query, maxChunks, pcRank, ranked>>
pipeVars  == <<document, upload, job, del, get>>

----------------------------------------------------------------------------
(* Bounds of the model *)

MaxTextLen == 6
MaxChunkSize == 2
MaxPdfTextLen == 3
MaxQueryLen == 4
MaxStoredChunks == 2
MaxMaxChunks == 2

----------------------------------------------------------------------------
(* JavaScript string and array primitives used by the source *)

Min(a, b) == IF a <= b THEN a ELSE b
Max(a, b) == IF a >= b THEN a ELSE b

\* The characters the regular expression class \s matches (and trim() strips)
IsSpace(c) == c \in {" ", "\n", "\r"}

RECURSIVE TrimStart(_)
TrimStart(s) ==
    IF s # <<>> /\ IsSpace(s[1]) THEN TrimStart(Tail(s)) ELSE s

RECURSIVE TrimEnd(_)
TrimEnd(s) ==
    IF s # <<>> /\ IsSpace(s[Len(s)]) THEN TrimEnd(SubSeq(s, 1, Len(s) - 1)) ELSE s

\* String.prototype.trim
Trim(s) == TrimEnd(TrimStart(s))

\* text.replace(/\r\n/g, "\n")
RECURSIVE ReplaceCRLF(_)
ReplaceCRLF(s) ==
    IF s = <<>> THEN <<>>
    ELSE IF Len(s) >= 2 /\ s[1] = "\r" /\ s[2] = "\n"
         THEN <<"\n">> \o ReplaceCRLF(SubSeq(s, 3, Len(s)))
         ELSE <<s[1]>> \o ReplaceCRLF(Tail(s))

\* .replace(/\s+/g, " "): every maximal run of \s characters, newlines
\* included, becomes one space
RECURSIVE CollapseWhitespace(_)
CollapseWhitespace(s) ==
    IF s = <<>> THEN <<>>
    ELSE IF IsSpace(s[1])
         THEN <<" ">> \o CollapseWhitespace(TrimStart(s))
         ELSE <<s[1]>> \o CollapseWhitespace(Tail(s))

\* .replace(/ \n/g, "\n")
RECURSIVE ReplaceSpaceNewline(_)
ReplaceSpaceNewline(s) ==
    IF s = <<>> THEN <<>>
    ELSE IF Len(s) >= 2 /\ s[1] = " " /\ s[2] = "\n"
         THEN <<"\n">> \o ReplaceSpaceNewline(SubSeq(s, 3, Len(s)))
         ELSE <<s[1]>> \o ReplaceSpaceNewline(Tail(s))

\* String.prototype.split on a regular expression that matches the maximal
\* runs of the characters of seps: the pieces between the runs, the empty
\* pieces at either end included; "" gives [""]
RECURSIVE SplitRuns(_, _, _)
SplitRuns(s, seps, piece) ==
    IF s = <<>> THEN <<piece>>
    ELSE IF s[1] \in seps
         THEN IF Len(s) >= 2 /\ s[2] \in seps
              THEN SplitRuns(Tail(s), seps, piece)
              ELSE <<piece>> \o SplitRuns(Tail(s), seps, <<>>)
         ELSE SplitRuns(Tail(s), seps, Append(piece, s[1]))

\* s.split(/\s+/)
SplitWhitespace(s) == SplitRuns(s, {" ", "\n", "\r"}, <<>>)

\* s.split(/\n+/)
SplitNewlines(s) == SplitRuns(s, {"\n"}, <<>>)

\* Array.prototype.join
RECURSIVE Join(_, _)
Join(parts, sep) ==
    IF parts = <<>> THEN <<>>
    ELSE IF Len(parts) = 1 THEN parts[1]
    ELSE parts[1] \o sep \o Join(Tail(parts), sep)

\* Array.prototype.slice(from, to) for 0 <= from
Slice(arr, from, to) == SubSeq(arr, from + 1, Min(to, Len(arr)))

\* Array.prototype.slice(-n) for n >= 0: the last n elements, and, as -0 is 0,
\* the whole array when n = 0
SliceFromEnd(arr, n) ==
    IF n = 0 THEN arr ELSE SubSeq(arr, Max(Len(arr) - n, 0) + 1, Len(arr))

----------------------------------------------------------------------------
(* chunkText *)

\* lines 11-15
CleanText(t) ==
    Trim(ReplaceSpaceNewline(CollapseWhitespace(ReplaceCRLF(t))))

\* line 19, .filter((p) => p.trim().length > 0)
RECURSIVE FilterNonBlank(_)
FilterNonBlank(arr) ==
    IF arr = <<>> THEN <<>>
    ELSE (IF Len(Trim(arr[1])) > 0 THEN <<arr[1]>> ELSE <<>>)
         \o FilterNonBlank(Tail(arr))

\* lines 17-19
Paragraphs(t) == FilterNonBlank(SplitNewlines(CleanText(t)))

\* line 38
ParagraphWords(paragraph) == SplitWhitespace(Trim(paragraph))

\* lines 21-24; diverged and windows are bookkeeping of the model: diverged
\* records that the window loop never leaves, windows lists, for every
\* oversized paragraph, the positions in chunks of the chunks its loop pushed
InitialChunkState ==
    [ chunks |-> <<>>, currentChunk |-> <<>>, currentWordCount |-> 0,
      chunkIndex |-> 0, diverged |-> FALSE, windows |-> <<>> ]

\* PushChunk with the index incremented before it is stored (++chunkIndex)
PushChunkPreIncrement(st, content) ==
    LET finalContent == Trim(content) IN
    IF finalContent = <<>> THEN st
    ELSE [st EXCEPT
            !.chunks = Append(@, [content |-> finalContent,
                                  chunkIndex |-> st.chunkIndex + 1,
                                  pageNumber |-> 0]),
            !.chunkIndex = @ + 1]

\* lines 26-35
PushChunk(st, content) ==
    LET finalContent == Trim(content) IN
    IF finalContent = <<>> THEN st
    ELSE [st EXCEPT
            !.chunks = Append(@, [content |-> finalContent,
                                  chunkIndex |-> st.chunkIndex,
                                  pageNumber |-> 0]),
            !.chunkIndex = @ + 1]

\* Stride that is one short (i += chunkSize - overlap - 1)
StrideOneShort(size, ovl) == size - ovl - 1

\* Stride that forgets the overlap (i += chunkSize)
StrideNoOverlap(size, ovl) == size

\* line 47, the loop's increment
Stride(size, ovl) == size - ovl

\* Break test that is off by one (>)
WindowReachesEndStrict(i, size, n) == i + size > n

\* line 49, the loop's break
WindowReachesEnd(i, size, n) == i + size >= n

\* line 48, the words of the window at i
WindowWords(words, i, size) == Slice(words, i, i + size)

\* lines 47-50. With a stride of 0 the loop pushes the same window for ever;
\* a loop with a stride >= 1 leaves within Len(words) iterations, so running
\* out of fuel is exactly non-termination.
RECURSIVE WindowLoop(_, _, _, _, _, _)
WindowLoop(st, words, i, size, ovl, fuel) ==
    IF ~(i < Len(words)) THEN st
    ELSE IF fuel = 0 THEN [st EXCEPT !.diverged = TRUE]
    ELSE LET pushed == PushChunk(st, Join(WindowWords(words, i, size), <<" ">>))
             noted == IF Len(pushed.chunks) > Len(st.chunks)
                      THEN [pushed EXCEPT
                              !.windows[Len(st.windows)] =
                                  Append(@, Len(pushed.chunks))]
                      ELSE pushed
         IN IF WindowReachesEnd(i, size, Len(words)) THEN noted
            ELSE WindowLoop(noted, words, i + Stride(size, ovl), size, ovl, fuel - 1)

\* lines 40-52
OversizedParagraph(st, words, size, ovl) ==
    LET flushed == IF Len(st.currentChunk) > 0
                   THEN [PushChunk(st, Join(st.currentChunk, <<"\n", "\n">>))
                           EXCEPT !.currentChunk = <<>>, !.currentWordCount = 0]
                   ELSE st
        opened == [flushed EXCEPT !.windows = Append(@, <<>>)]
    IN WindowLoop(opened, words, 0, size, ovl, Len(words) + 1)

\* lines 54-67
PackParagraph(st, paragraph, words, size, ovl) ==
    IF st.currentWordCount + Len(words) > size /\ Len(st.currentChunk) > 0
    THEN LET pushed == PushChunk(st, Join(st.currentChunk, <<"\n", "\n">>))
             prevWords == SplitWhitespace(Join(st.currentChunk, <<" ">>))
             overlapText ==
                 Join(SliceFromEnd(prevWords, Min(ovl, Len(prevWords))), <<" ">>)
         IN [pushed EXCEPT
               !.currentChunk = IF overlapText # <<>>
                                THEN <<overlapText, paragraph>>
                                ELSE <<paragraph>>,
               !.currentWordCount =
                   Len(SplitWhitespace(overlapText)) + Len(words)]
    ELSE [st EXCEPT
            !.currentChunk = Append(@, paragraph),
            !.currentWordCount = @ + Len(words)]

\* lines 37-68, one iteration per paragraph
RECURSIVE ParagraphLoop(_, _, _, _)
ParagraphLoop(st, paragraphs, size, ovl) ==
    IF paragraphs = <<>> \/ st.diverged THEN st
    ELSE LET paragraph == paragraphs[1]
             words == ParagraphWords(paragraph)
             next == IF Len(words) > size
                     THEN OversizedParagraph(st, words, size, ovl)
                     ELSE PackParagraph(st, paragraph, words, size, ovl)
         IN ParagraphLoop(next, Tail(paragraphs), size, ovl)

\* lines 8-75
ChunkText(t, size, ovl) ==
    IF t = <<>> \/ Len(Trim(t)) = 0 THEN InitialChunkState
    ELSE LET st == ParagraphLoop(InitialChunkState, Paragraphs(t), size, ovl)
         IN IF st.diverged THEN st
            ELSE IF Len(st.currentChunk) > 0
                 THEN PushChunk(st, Join(st.currentChunk, <<"\n", "\n">>))
                 ELSE st

\* What a call hands back: the chunks, with the model's bookkeeping
ChunkResult(st) ==
    [chunks |-> st.chunks, diverged |-> st.diverged, windows |-> st.windows]

NotCalled == [chunks |-> <<>>, diverged |-> FALSE, windows |-> <<>>]

----------------------------------------------------------------------------
(* findRelevantChunks *)

\* lines 87-108
StopWords ==
    { <<"t", "h", "e">>, <<"i", "s">>, <<"a", "t">>,
      <<"w", "h", "i", "c", "h">>, <<"o", "n">>, <<"a", "n">>,
      <<"i", "n">>, <<"w", "i", "t", "h">>, <<"t", "o">>,
      <<"f", "o", "r">>, <<"a">>, <<"a", "n", "d">>,
      <<"o", "r">>, <<"o", "f">>, <<"a", "s">>,
      <<"b", "y">>, <<"b", "u", "t">>, <<"t", "h", "i", "s">>,
      <<"t", "h", "a", "t">>, <<"i", "t">> }

\* String.prototype.toLowerCase on the letters of the model
ToLowerChar(c) ==
    CASE c = "A" -> "a"
      [] c = "N" -> "n"
      [] c = "D" -> "d"
      [] OTHER -> c

ToLowerCase(s) == [i \in 1..Len(s) |-> ToLowerChar(s[i])]

\* line 113, .filter((w) => w.length > 2 && !stopWords.has(w))
RECURSIVE FilterQueryWords(_)
FilterQueryWords(ws) ==
    IF ws = <<>> THEN <<>>
    ELSE (IF Len(ws[1]) > 2 /\ ws[1] \notin StopWords THEN <<ws[1]>> ELSE <<>>)
         \o FilterQueryWords(Tail(ws))

\* lines 110-113
QueryWords(q) == FilterQueryWords(SplitWhitespace(ToLowerCase(q)))

\* The class \w of a regular expression, on the characters of the model
IsWordChar(c) == c \in {"a", "n", "d", "A", "N", "D"}

\* new RegExp(source): the pattern is compiled from the token's characters.
\* "." is the wildcard and "+" repeats the atom before it; a "+" with no atom
\* before it, or after another "+", is a SyntaxError (nothing to repeat).
RECURSIVE CompileAtoms(_, _)
CompileAtoms(source, items) ==
    IF source = <<>> THEN [ok |-> TRUE, items |-> items]
    ELSE IF source[1] = "+"
         THEN IF items = <<>> \/ items[Len(items)].plus
              THEN [ok |-> FALSE, items |-> <<>>]
              ELSE CompileAtoms(Tail(source),
                                [items EXCEPT ![Len(items)].plus = TRUE])
         ELSE CompileAtoms(Tail(source),
                 Append(items,
                        [kind |-> IF source[1] = "." THEN "any" ELSE "lit",
                         ch |-> source[1], plus |-> FALSE]))

WordBoundaryItem == [kind |-> "bound", ch |-> "", plus |-> FALSE]

\* line 133, new RegExp(word, "g")
PartialRegExp(word) == CompileAtoms(word, <<>>)

\* line 131, new RegExp(`\\b${word}\\b`, "g"): \b cannot be repeated, so a
\* leading "+" is a SyntaxError here too
ExactRegExp(word) ==
    LET body == CompileAtoms(word, <<>>) IN
    IF body.ok
    THEN [ok |-> TRUE, items |-> <<WordBoundaryItem>> \o body.items \o <<WordBoundaryItem>>]
    ELSE body

\* \b before position pos (1-based) of s
AtWordBoundary(s, pos) ==
    LET left == pos > 1 /\ IsWordChar(s[pos - 1])
        right == pos <= Len(s) /\ IsWordChar(s[pos])
    IN left # right

\* Whether an atom accepts a character ("." accepts all but line terminators)
Accepts(item, c) ==
    IF item.kind = "any" THEN c \notin {"\n", "\r"} ELSE c = item.ch

RECURSIVE RunLength(_, _, _)
RunLength(item, s, pos) ==
    IF pos <= Len(s) /\ Accepts(item, s[pos])
    THEN 1 + RunLength(item, s, pos + 1) ELSE 0

\* The backtracking matcher: where the match of items[k..] that starts at pos
\* ends (the position after it), or 0 when there is none. A repeated atom is
\* greedy: the longest run is tried first.
RECURSIVE MatchAt(_, _, _, _), TryRepeats(_, _, _, _, _)
MatchAt(items, k, s, pos) ==
    IF k > Len(items) THEN pos
    ELSE IF items[k].kind = "bound"
         THEN IF AtWordBoundary(s, pos) THEN MatchAt(items, k + 1, s, pos) ELSE 0
    ELSE IF items[k].plus
         THEN TryRepeats(items, k, s, pos, RunLength(items[k], s, pos))
    ELSE IF pos <= Len(s) /\ Accepts(items[k], s[pos])
         THEN MatchAt(items, k + 1, s, pos + 1)
         ELSE 0

TryRepeats(items, k, s, pos, reps) ==
    IF reps = 0 THEN 0
    ELSE LET end == MatchAt(items, k + 1, s, pos + reps) IN
         IF end # 0 THEN end ELSE TryRepeats(items, k, s, pos, reps - 1)

\* (content.match(regexp) || []).length with the g flag: the matches are
\* found left to right, each search starting where the last match ended
RECURSIVE CountMatchesFrom(_, _, _)
CountMatchesFrom(items, s, pos) ==
    IF pos > Len(s) + 1 THEN 0
    ELSE LET end == MatchAt(items, 1, s, pos) IN
         IF end = 0 THEN CountMatchesFrom(items, s, pos + 1)
         ELSE 1 + CountMatchesFrom(items, s, IF end = pos THEN pos + 1 ELSE end)

CountMatches(regexp, s) == CountMatchesFrom(regexp.items, s, 1)

\* String.prototype.includes
Includes(s, w) ==
    \E pos \in 1..(Len(s) - Len(w) + 1) : SubSeq(s, pos, pos + Len(w) - 1) = w

\* lines 129-138, one query word on one chunk: its two counts and its score,
\* doubled so that the weight 1.5 stays an integer
WordMatches(content, word) ==
    LET exactMatches == CountMatches(ExactRegExp(word), content)
        partialMatches == CountMatches(PartialRegExp(word), content)
    IN [exact |-> exactMatches, partial |-> partialMatches,
        score2 |-> exactMatches * 6 + Max(0, partialMatches - exactMatches) * 3]

RECURSIVE SumScore2(_, _)
SumScore2(content, words) ==
    IF words = <<>> THEN 0
    ELSE WordMatches(content, words[1]).score2 + SumScore2(content, Tail(words))

RECURSIVE CountIncluded(_, _)
CountIncluded(content, words) ==
    IF words = <<>> THEN 0
    ELSE (IF Includes(content, words[1]) THEN 1 ELSE 0)
         + CountIncluded(content, Tail(words))

\* lines 124-160. score is normalizedScore * positionBonus
\*   = (rawScore2 / 2) / sqrt(contentWords) * (10 * total - index) / (10 * total);
\* the record keeps its integer parts, and CompareScore compares two of them
ScoreChunk(chunk, index, total, words) ==
    LET content == ToLowerCase(chunk.content)
        uniqueWordsFound == CountIncluded(content, words)
        score2 == SumScore2(content, words)
                  + (IF uniqueWordsFound > 1 THEN uniqueWordsFound * 4 ELSE 0)
    IN [content |-> chunk.content, chunkIndex |-> chunk.chunkIndex,
        pageNumber |-> chunk.pageNumber, id |-> chunk.id,
        rawScore2 |-> score2,
        contentWords |-> Len(SplitWhitespace(content)),
        index |-> index, total |-> total,
        matchedWords |-> uniqueWordsFound]

\* line 163, chunk.score > 0
ScorePositive(c) == c.rawScore2 > 0

\* The square of the score, times (20 * total)^2 * other.contentWords * c.contentWords
ScoreKey(c, other) ==
    c.rawScore2 * c.rawScore2
    * (10 * c.total - c.index) * (10 * c.total - c.index) * other.contentWords

\* lines 164-169, the comparator: negative when x sorts before y
Comparator(x, y) ==
    IF ScoreKey(y, x) # ScoreKey(x, y) THEN ScoreKey(y, x) - ScoreKey(x, y)
    ELSE IF y.matchedWords # x.matchedWords THEN y.matchedWords - x.matchedWords
    ELSE x.chunkIndex - y.chunkIndex

\* Array.prototype.sort, which is stable: insertion from the left
RECURSIVE InsertSorted(_, _)
InsertSorted(sorted, c) ==
    IF sorted = <<>> THEN <<c>>
    ELSE IF Comparator(c, sorted[1]) < 0 THEN <<c>> \o sorted
    ELSE <<sorted[1]>> \o InsertSorted(Tail(sorted), c)

RECURSIVE SortChunks(_)
SortChunks(cs) ==
    IF cs = <<>> THEN <<>>
    ELSE InsertSorted(SortChunks(SubSeq(cs, 1, Len(cs) - 1)), cs[Len(cs)])

RECURSIVE FilterPositive(_)
FilterPositive(cs) ==
    IF cs = <<>> THEN <<>>
    ELSE (IF ScorePositive(cs[1]) THEN <<cs[1]>> ELSE <<>>)
         \o FilterPositive(Tail(cs))

\* lines 116-121
PassThrough(chunk) ==
    [content |-> chunk.content, chunkIndex |-> chunk.chunkIndex,
     pageNumber |-> chunk.pageNumber, id |-> chunk.id]

\* lines 84-171. error records the SyntaxError a token's RegExp raises;
\* matches keeps, for every chunk and query word, the counts the score used
FindRelevantChunks(chs, q, maxN) ==
    IF chs = <<>> \/ q = <<>>
    THEN [error |-> FALSE, result |-> <<>>, matches |-> <<>>]
    ELSE LET words == QueryWords(q) IN
         IF words = <<>>
         THEN [error |-> FALSE,
               result |-> [k \in 1..Min(maxN, Len(chs)) |-> PassThrough(chs[k])],
               matches |-> <<>>]
         ELSE IF \E j \in 1..Len(words) :
                    ~ExactRegExp(words[j]).ok \/ ~PartialRegExp(words[j]).ok
         THEN [error |-> TRUE, result |-> <<>>, matches |-> <<>>]
         ELSE LET scoredChunks ==
                      [k \in 1..Len(chs) |-> ScoreChunk(chs[k], k - 1, Len(chs), words)]
              IN [error |-> FALSE,
                  result |-> Slice(SortChunks(FilterPositive(scoredChunks)), 0, maxN),
                  matches |-> [k \in 1..Len(chs) |->
                                 [j \in 1..Len(words) |->
                                    WordMatches(ToLowerCase(chs[k].content), words[j])]]]

NotRanked == [error |-> FALSE, result |-> <<>>, matches |-> <<>>]

----------------------------------------------------------------------------
(* The upload pipeline of one document: uploadDocument, the background job *)
(* processPDF, getDocument and deleteDocument, interleaved at their awaits  *)

\* documentController.js line 69: chunkText(text, 500, 50)
PipelineChunkSize == 500
PipelineOverlap == 50

PdfAlphabet == {"a", " ", "\n"}

\* What pdf-parse makes of the uploaded file: it throws, or it yields a text
Pdfs ==
    {[parses |-> FALSE, text |-> <<>>]}
    \cup {[parses |-> TRUE, text |-> t] :
            t \in UNION {[1..n -> PdfAlphabet] : n \in 0..MaxPdfTextLen}}

NoPdf == [parses |-> FALSE, text |-> <<>>]

\* No upload request yet
NoUpload == [state |-> "none", pdf |-> NoPdf, onDisk |-> FALSE]

\* No document with this _id in the collection
NoDocument ==
    [present |-> FALSE, status |-> "none", extractedText |-> <<>>,
     chunks |-> <<>>, lastAccessed |-> FALSE]

\* lines 38-45, Document.create
CreatedDocument ==
    [present |-> TRUE, status |-> "processing", extractedText |-> <<>>,
     chunks |-> <<>>, lastAccessed |-> FALSE]

\* An update that inserts the document when none matches (upsert: true)
FindByIdAndUpdateUpsert(doc, fields) ==
    [present |-> TRUE,
     status |-> fields.status,
     extractedText |-> IF fields.hasText THEN fields.extractedText
                       ELSE doc.extractedText,
     chunks |-> IF fields.hasText THEN fields.chunks ELSE doc.chunks,
     lastAccessed |-> doc.lastAccessed]

\* lines 77-81 and 83-85, Document.findByIdAndUpdate(documentId, fields):
\* the matching document gets the fields; when none matches nothing is written
FindByIdAndUpdate(doc, fields) ==
    IF ~doc.present THEN doc
    ELSE [doc EXCEPT
            !.status = fields.status,
            !.extractedText = IF fields.hasText THEN fields.extractedText ELSE @,
            !.chunks = IF fields.hasText THEN fields.chunks ELSE @]

\* lines 78-80
ReadyFields(t, storedChunks) ==
    [status |-> "ready", hasText |-> TRUE, extractedText |-> t,
     chunks |-> storedChunks]

\* line 84
FailedFields ==
    [status |-> "failed", hasText |-> FALSE, extractedText |-> <<>>,
     chunks |-> <<>>]

\* lines 71-75: processPDF stores the array position as chunkIndex
ProcessPDFChunks(rawChunks) ==
    [k \in 1..Len(rawChunks) |->
        [content |-> rawChunks[k].content, chunkIndex |-> k - 1, pageNumber |-> 0]]

\* An emptiness test that forgets the trim (!text only)
TextIsEmptyNoTrim(t) == t = <<>>

\* line 65, !text || text.trim().length === 0
TextIsEmpty(t) == t = <<>> \/ Len(Trim(t)) = 0

\* pdfParser.js lines 11-26: the file is read and parsed; any failure is
\* rethrown, and a missing text becomes ""
ExtractTextFromPDF(onDisk, pdf) ==
    IF onDisk /\ pdf.parses
    THEN [threw |-> FALSE, text |-> pdf.text]
    ELSE [threw |-> TRUE, text |-> <<>>]

JobIdle == [pc |-> "none", failed |-> FALSE, fields |-> FailedFields,
            matched |-> "none"]

\* lines 16-32: the request is checked; multer has stored the file
UploadRequest(hasFile, hasTitle, pdf) ==
    /\ upload.state = "none"
    /\ upload' =
         IF ~hasFile THEN [state |-> "badRequest", pdf |-> NoPdf, onDisk |-> FALSE]
         ELSE IF ~hasTitle
              THEN [state |-> "badRequest", pdf |-> pdf, onDisk |-> FALSE]
              ELSE [state |-> "creating", pdf |-> pdf, onDisk |-> TRUE]
    /\ UNCHANGED <<document, job, del, get, chunkVars, rankVars>>

\* lines 38-45 and 55-58: Document.create resolves or rejects
UploadCreate(dbOk) ==
    /\ upload.state = "creating"
    /\ IF dbOk
       THEN /\ document' = CreatedDocument
            /\ upload' = [upload EXCEPT !.state = "inserted"]
       ELSE /\ document' = document
            /\ upload' = [upload EXCEPT !.state = "error", !.onDisk = FALSE]
    /\ UNCHANGED <<job, del, get, chunkVars, rankVars>>

\* lines 47-54: processPDF is started, not awaited, and 201 is sent
UploadRespond ==
    /\ upload.state = "inserted"
    /\ upload' = [upload EXCEPT !.state = "created"]
    /\ job' = [JobIdle EXCEPT !.pc = "extract"]
    /\ UNCHANGED <<document, del, get, chunkVars, rankVars>>

\* lines 62-75: extraction, the emptiness check, chunking and the mapping
JobExtract ==
    /\ job.pc = "extract"
    /\ LET got == ExtractTextFromPDF(upload.onDisk, upload.pdf) IN
       IF got.threw \/ TextIsEmpty(got.text)
       THEN job' = [job EXCEPT !.pc = "catch", !.failed = TRUE]
       ELSE LET rawChunks ==
                    ChunkText(got.text, PipelineChunkSize, PipelineOverlap).chunks
            IN job' = [job EXCEPT
                         !.pc = "store",
                         !.fields = ReadyFields(got.text, ProcessPDFChunks(rawChunks))]
    /\ UNCHANGED <<document, upload, del, get, chunkVars, rankVars>>

\* lines 77-82: the update that stores the chunks resolves or rejects
JobStore(dbOk) ==
    /\ job.pc = "store"
    /\ IF dbOk
       THEN /\ document' = FindByIdAndUpdate(document, job.fields)
            /\ job' = [job EXCEPT
                         !.pc = "done",
                         !.matched = IF document.present THEN "doc" ELSE "null"]
       ELSE /\ document' = document
            /\ job' = [job EXCEPT !.pc = "catch", !.failed = TRUE]
    /\ UNCHANGED <<upload, del, get, chunkVars, rankVars>>

\* lines 82-86: the catch block's own update resolves, or rejects with
\* nothing left to catch it (line 48 neither awaits nor catches the job)
JobCatch(dbOk) ==
    /\ job.pc = "catch"
    /\ IF dbOk
       THEN /\ document' = FindByIdAndUpdate(document, FailedFields)
            /\ job' = [job EXCEPT
                         !.pc = "done",
                         !.matched = IF document.present THEN "doc" ELSE "null"]
       ELSE /\ document' = document
            /\ job' = [job EXCEPT !.pc = "rejected"]
    /\ UNCHANGED <<upload, del, get, chunkVars, rankVars>>

\* lines 148-159: getDocument's findOne
GetFind ==
    /\ get.pc = "idle"
    /\ get' = IF document.present THEN [pc |-> "found", code |-> get.code]
              ELSE [pc |-> "idle", code |-> 404]
    /\ UNCHANGED <<document, upload, job, del, chunkVars, rankVars>>

\* An update of a found document matches by _id and changes only lastAccessed
SaveLastAccessed(doc) ==
    IF doc.present THEN [doc EXCEPT !.lastAccessed = TRUE] ELSE doc

\* lines 161-184: the counts, document.save() and the response
GetSave(dbOk) ==
    /\ get.pc = "found"
    /\ IF dbOk /\ document.present
       THEN /\ document' = SaveLastAccessed(document)
            /\ get' = [pc |-> "idle", code |-> 200]
       ELSE /\ document' = document
            /\ get' = [pc |-> "idle", code |-> 500]
    /\ UNCHANGED <<upload, job, del, chunkVars, rankVars>>

\* lines 194-205: deleteDocument's findOne
DeleteFind ==
    /\ del.pc \in {"idle", "notFound"}
    /\ del' = [del EXCEPT !.pc = IF document.present THEN "found" ELSE "notFound"]
    /\ UNCHANGED <<document, upload, job, get, chunkVars, rankVars>>

\* lines 207-209: fs.unlink(document.filePath), its failure swallowed. The
\* stored filePath is the public path, which names the uploaded file only
\* when the server's root is the filesystem root: removed says which.
DeleteUnlink(removed) ==
    /\ del.pc = "found"
    /\ del' = [del EXCEPT !.pc = "unlinked"]
    /\ upload' = [upload EXCEPT !.onDisk = IF removed THEN FALSE ELSE @]
    /\ UNCHANGED <<document, job, get, chunkVars, rankVars>>

\* lines 211-219: document.deleteOne() resolves or rejects
DeleteOne(dbOk) ==
    /\ del.pc = "unlinked"
    /\ IF dbOk
       THEN /\ document' = NoDocument
            /\ del' = [pc |-> "deleted", removed |-> TRUE]
       ELSE /\ document' = document
            /\ del' = [del EXCEPT !.pc = "error"]
    /\ UNCHANGED <<upload, job, get, chunkVars, rankVars>>

----------------------------------------------------------------------------
(* The specifications. Each runs one part of the program; the variables of   *)
(* the other parts rest in their initial values.                            *)

ChunkIdle ==
    /\ text = <<>> /\ chunkSize = PipelineChunkSize /\ overlap = PipelineOverlap
    /\ pcChunk = "idle" /\ chunked = NotCalled

RankIdle ==
    /\ chunks = <<>> /\ query = <<>> /\ maxChunks = 0
    /\ pcRank = "idle" /\ ranked = NotRanked

PipeIdle ==
    /\ document = NoDocument
    /\ upload = NoUpload
    /\ job = JobIdle
    /\ del = [pc |-> "idle", removed |-> FALSE]
    /\ get = [pc |-> "idle", code |-> 0]

\* One chunkText call on a text over a small alphabet
TextAlphabet == {"a", "b", " ", "\n", "\r"}

Texts == UNION {[1..n -> TextAlphabet] : n \in 0..MaxTextLen}

ChunkInit ==
    /\ text \in Texts
    /\ chunkSize \in 1..MaxChunkSize
    /\ overlap \in 0..chunkSize
    /\ pcChunk = "call"
    /\ chunked = NotCalled
    /\ RankIdle
    /\ PipeIdle

ChunkTextCall ==
    /\ pcChunk = "call"
    /\ chunked' = ChunkResult(ChunkText(text, chunkSize, overlap))
    /\ pcChunk' = "done"
    /\ UNCHANGED <<text, chunkSize, overlap, rankVars, pipeVars>>

ChunkNext == ChunkTextCall

ChunkSpec == ChunkInit /\ [][ChunkNext]_vars

\* One findRelevantChunks call on stored chunks and a query
QueryAlphabet == {"a", "n", "d", ".", "+", " "}

Queries == UNION {[1..n -> QueryAlphabet] : n \in 0..MaxQueryLen}

Contents ==
    { <<"a", "a", "d">>,
      <<"a", ".", "d", " ", "D", "a", "d">>,
      <<"d", "a", "d", "d", "a", "d">>,
      <<"a", "n", "d", " ", "a", "a", "d", " ", "a", "a", "d">> }

\* Chunks as processPDF stores them: chunkIndex is the array position
StoredChunks(contents) ==
    [k \in 1..Len(contents) |->
        [content |-> contents[k], chunkIndex |-> k - 1, pageNumber |-> 0,
         id |-> k]]

RankInit ==
    /\ \E contents \in UNION {[1..n -> Contents] : n \in 0..MaxStoredChunks} :
          chunks = StoredChunks(contents)
    /\ query \in Queries
    /\ maxChunks \in 0..MaxMaxChunks
    /\ pcRank = "call"
    /\ ranked = NotRanked
    /\ ChunkIdle
    /\ PipeIdle

FindRelevantChunksCall ==
    /\ pcRank = "call"
    /\ ranked' = FindRelevantChunks(chunks, query, maxChunks)
    /\ pcRank' = "done"
    /\ UNCHANGED <<chunks, query, maxChunks, chunkVars, pipeVars>>

RankNext == FindRelevantChunksCall

RankSpec == RankInit /\ [][RankNext]_vars

\* The pipeline of one uploaded document
PipeInit ==
    /\ PipeIdle
    /\ ChunkIdle
    /\ RankIdle

Next ==
    \/ \E hasFile, hasTitle \in BOOLEAN, pdf \in Pdfs :
          UploadRequest(hasFile, hasTitle, pdf)
    \/ \E dbOk \in BOOLEAN : UploadCreate(dbOk)
    \/ UploadRespond
    \/ JobExtract
    \/ \E dbOk \in BOOLEAN : JobStore(dbOk)
    \/ \E dbOk \in BOOLEAN : JobCatch(dbOk)
    \/ GetFind
    \/ \E dbOk \in BOOLEAN : GetSave(dbOk)
    \/ DeleteFind
    \/ \E removed \in BOOLEAN : DeleteUnlink(removed)
    \/ \E dbOk \in BOOLEAN : DeleteOne(dbOk)

Spec == PipeInit /\ [][Next]_vars

----------------------------------------------------------------------------
(* Properties of chunkText *)

\* The whitespace-separated words of a string, by a scan of its characters
RECURSIVE ScanWords(_, _)
ScanWords(s, word) ==
    LET done == IF word = <<>> THEN <<>> ELSE <<word>> IN
    IF s = <<>> THEN done
    ELSE IF IsSpace(s[1]) THEN done \o ScanWords(Tail(s), <<>>)
    ELSE ScanWords(Tail(s), Append(word, s[1]))

WordSequence(s) == ScanWords(s, <<>>)

LastWords(ws, n) == SubSeq(ws, Len(ws) - n + 1, Len(ws))

ChunkWords(k) == WordSequence(chunked.chunks[k].content)

DocumentedDomain == chunkSize > overlap /\ overlap >= 0

\* The ways to read a text as two paragraphs separated by one blank line
TwoParagraphs(t) ==
    { pp \in { <<SubSeq(t, 1, k - 1), SubSeq(t, k + 2, Len(t))>> :
                 k \in { j \in 1..(Len(t) - 1) : t[j] = "\n" /\ t[j + 1] = "\n" } } :
        /\ \A i \in 1..Len(pp[1]) : pp[1][i] \notin {"\n", "\r"}
        /\ \A i \in 1..Len(pp[2]) : pp[2][i] \notin {"\n", "\r"}
        /\ WordSequence(pp[1]) # <<>>
        /\ WordSequence(pp[2]) # <<>> }

PacksByParagraph(p1, p2) ==
    LET w1 == WordSequence(p1)
        w2 == WordSequence(p2)
    IN (Len(w1) <= chunkSize /\ Len(w2) <= chunkSize /\ Len(w1) + Len(w2) > chunkSize)
       => /\ Len(chunked.chunks) = 2
          /\ ChunkWords(1) = w1
          /\ ChunkWords(2) = LastWords(w1, Min(overlap, Len(w1))) \o w2

\* C1: a text of two paragraphs, each of at most chunkSize words and together
\* of more than chunkSize words, is returned as exactly two chunks: the first
\* paragraph, then the last min(overlap, words of the first) words of the
\* first paragraph followed by the second paragraph.
C1_PacksByParagraph ==
    (pcChunk = "done" /\ DocumentedDomain)
    => \A pp \in TwoParagraphs(text) : PacksByParagraph(pp[1], pp[2])

\* The words of the chunks with every later chunk's leading overlap removed
RECURSIVE Reassemble(_)
Reassemble(k) ==
    IF k = 0 THEN <<>>
    ELSE IF k = 1 THEN ChunkWords(1)
    ELSE LET lead == Min(overlap, Len(ChunkWords(k - 1)))
         IN Reassemble(k - 1)
            \o SubSeq(ChunkWords(k), Min(lead, Len(ChunkWords(k))) + 1, Len(ChunkWords(k)))

\* C2: for a text with at least one word and chunkSize > overlap >= 0, the
\* first chunk's words followed by every later chunk's words after its leading
\* overlap are exactly the words of the text, in order.
C2_Reconstructs ==
    (pcChunk = "done" /\ DocumentedDomain /\ WordSequence(text) # <<>>)
    => Reassemble(Len(chunked.chunks)) = WordSequence(text)

C2_Witness ==
    /\ pcChunk = "done" /\ DocumentedDomain /\ overlap >= 1
    /\ Len(chunked.chunks) >= 2
    /\ \E i, j \in 1..Len(WordSequence(text)) :
          WordSequence(text)[i] # WordSequence(text)[j]

\* The windows cut from one oversized paragraph, given as positions in chunks
WindowsWellFormed(w) ==
    /\ Len(w) >= 1
    /\ \A j \in 1..Len(w) :
          LET ws == ChunkWords(w[j]) IN
          /\ j < Len(w) => Len(ws) = chunkSize
          /\ j = Len(w) => (1 <= Len(ws) /\ Len(ws) <= chunkSize)
          /\ j > 1 => /\ Len(ws) > overlap
                      /\ SubSeq(ws, 1, overlap)
                           = LastWords(ChunkWords(w[j - 1]), overlap)

RECURSIVE CountOversized(_)
CountOversized(paragraphs) ==
    IF paragraphs = <<>> THEN 0
    ELSE (IF Len(ParagraphWords(paragraphs[1])) > chunkSize THEN 1 ELSE 0)
         + CountOversized(Tail(paragraphs))

\* C3: a paragraph of more than chunkSize words is cut into windows that all
\* have exactly chunkSize words except possibly the last, which has between 1
\* and chunkSize; every window after the first starts with the last overlap
\* words of the window before it and adds at least one word.
C3_Windows ==
    (pcChunk = "done" /\ DocumentedDomain)
    => /\ Len(chunked.windows) = CountOversized(Paragraphs(text))
       /\ \A p \in 1..Len(chunked.windows) : WindowsWellFormed(chunked.windows[p])

C3_Witness ==
    /\ pcChunk = "done" /\ DocumentedDomain /\ overlap >= 1
    /\ Len(chunked.windows) = 1
    /\ Len(chunked.windows[1]) >= 2
    /\ ChunkWords(1) # ChunkWords(2)

\* C4: the chunkIndex values of the returned chunks are 0, 1, ..., n-1 in
\* emission order, so the index processPDF stores by array position is the
\* index the chunker assigned.
C4_DenseIndex ==
    (pcChunk = "done" /\ DocumentedDomain /\ text # <<>>)
    => \A k \in 1..Len(chunked.chunks) :
          /\ chunked.chunks[k].chunkIndex = k - 1
          /\ ProcessPDFChunks(chunked.chunks)[k].chunkIndex
               = chunked.chunks[k].chunkIndex

C4_Witness ==
    pcChunk = "done" /\ DocumentedDomain /\ Len(chunked.chunks) >= 3

\* C5: for chunkSize > overlap >= 0 the call ends: the window loop leaves
\* within its bound and a chunk sequence is returned.
C5_Terminates ==
    (pcChunk = "done" /\ DocumentedDomain) => ~chunked.diverged

C5_Witness ==
    /\ pcChunk = "done" /\ DocumentedDomain /\ overlap = chunkSize - 1
    /\ overlap >= 1
    /\ chunked.windows # <<>> /\ Len(chunked.windows[1]) >= 2
    /\ ~chunked.diverged

----------------------------------------------------------------------------
(* Properties of findRelevantChunks *)

ScoredInput ==
    [k \in 1..Len(chunks) |->
        ScoreChunk(chunks[k], k - 1, Len(chunks), QueryWords(query))]

PositivePositions == {k \in 1..Len(chunks) : ScoredInput[k].rawScore2 > 0}

\* x is ranked no later than y: a higher score, or the same score and more
\* matched words, or the same of both and no higher chunkIndex
RankedBefore(x, y) ==
    \/ ScoreKey(x, y) > ScoreKey(y, x)
    \/ /\ ScoreKey(x, y) = ScoreKey(y, x)
       /\ \/ x.matchedWords > y.matchedWords
          \/ x.matchedWords = y.matchedWords /\ x.chunkIndex <= y.chunkIndex

\* C6: for a query with at least one surviving token the call returns the
\* first maxChunks of the chunks with a positive score, ordered by descending
\* score, then descending matchedWords, then ascending chunkIndex.
C6_RankedPrefix ==
    (pcRank = "done" /\ QueryWords(query) # <<>>)
    => /\ ~ranked.error
       /\ Len(ranked.result) = Min(maxChunks, Cardinality(PositivePositions))
       /\ \A i \in 1..Len(ranked.result) :
             /\ ranked.result[i].index + 1 \in PositivePositions
             /\ ranked.result[i] = ScoredInput[ranked.result[i].index + 1]
       /\ \A i, j \in 1..Len(ranked.result) :
             i < j => /\ ranked.result[i].index # ranked.result[j].index
                      /\ RankedBefore(ranked.result[i], ranked.result[j])
       /\ \A k \in PositivePositions :
             (\A i \in 1..Len(ranked.result) : ranked.result[i].index + 1 # k)
             => \A i \in 1..Len(ranked.result) :
                   RankedBefore(ranked.result[i], ScoredInput[k])

\* The occurrences of word in s as a literal string, found left to right
\* without overlap; whole counts only those with no word character on
\* either side
RECURSIVE LiteralCountFrom(_, _, _, _)
LiteralCountFrom(word, s, pos, whole) ==
    IF pos + Len(word) - 1 > Len(s) THEN 0
    ELSE IF /\ SubSeq(s, pos, pos + Len(word) - 1) = word
            /\ whole => /\ (pos = 1 \/ ~IsWordChar(s[pos - 1]))
                        /\ (pos + Len(word) > Len(s) \/ ~IsWordChar(s[pos + Len(word)]))
         THEN 1 + LiteralCountFrom(word, s, pos + Len(word), whole)
         ELSE LiteralCountFrom(word, s, pos + 1, whole)

\* C7: every surviving query token is matched as a literal string: no call
\* raises an error, and the whole-word and substring counts the score uses
\* are the numbers of literal occurrences of the token in the lowercased
\* content.
C7_LiteralTokens ==
    (pcRank = "done" /\ QueryWords(query) # <<>> /\ chunks # <<>>)
    => /\ ~ranked.error
       /\ \A k \in 1..Len(chunks) : \A j \in 1..Len(QueryWords(query)) :
             LET content == ToLowerCase(chunks[k].content)
                 word == QueryWords(query)[j]
             IN /\ ranked.matches[k][j].exact = LiteralCountFrom(word, content, 1, TRUE)
                /\ ranked.matches[k][j].partial = LiteralCountFrom(word, content, 1, FALSE)

----------------------------------------------------------------------------
(* Properties of the pipeline *)

\* C8: a document whose status is "ready" has at least one stored chunk: the
\* job never stores an empty or whitespace-only text, and chunkText(text, 500,
\* 50) is non-empty for every text that passes the check.
C8_ReadyHasChunks ==
    /\ (document.present /\ document.status = "ready")
          => (Len(document.chunks) >= 1 /\ ~TextIsEmpty(document.extractedText))
    /\ job.pc = "store" => Len(job.fields.chunks) >= 1

C8_Witness ==
    /\ document.present /\ document.status = "ready"
    /\ Len(document.chunks) >= 1
    /\ \E i \in 1..Len(document.extractedText) : IsSpace(document.extractedText[i])

\* C9: once the background job has failed and ended, the document, if it
\* still exists, has status "failed" and no chunks.
C9_FailureMarksFailed ==
    (job.failed /\ job.pc \in {"done", "rejected"} /\ document.present)
    => (document.status = "failed" /\ document.chunks = <<>>)

\* C10: once deleteDocument has removed the document it is absent in every
\* later state, whatever the background job writes afterwards.
C10_StaysDeleted == del.removed => ~document.present

C10_Witness ==
    /\ del.removed /\ ~document.present
    /\ job.pc = "done" /\ job.matched = "null"

====
